---- MODULE Spec2Model ----
(***************************************************************************)
(* Model of the MTG Rules Assistant (src/app.py, src/scryfall_helper.py). *)
(*                                                                         *)
(* Representation of Python values:                                        *)
(*   - a str is a sequence of chunks; a chunk is a one-character string    *)
(*     wherever the code inspects characters (regex, strip, startswith,    *)
(*     the `in` substring test) and may be a longer literal where the code *)
(*     only concatenates it.  The empty str is << >>.                      *)
(*   - an Optional value is NoneV (<< >>) or Some(v) (<< v >>).            *)
(*   - temperature is counted in tenths (0.3 is 3).                        *)
(***************************************************************************)
EXTENDS Integers, Sequences, FiniteSets, TLC

VARIABLES
    pc,              \* position of the running function
    secrets_key,     \* st.secrets: [raises, value], value an Optional str
    env_key,         \* os.getenv("OPENAI_API_KEY"): an Optional str
    client,          \* Optional client object held by main / get_gpt_response
    question,        \* text of the question box / text argument
    format_type,     \* selected format
    response_style,  \* selected response style
    card_context,    \* Optional str passed to get_gpt_response
    button,          \* TRUE when "Get Answer" was pressed in this run
    prompt,          \* Optional [system, user] built by get_gpt_response
    request,         \* Optional keyword arguments of chat.completions.create
    error_msg,       \* Optional str(e) of the exception caught at app.py:185
    response,        \* Optional str returned by get_gpt_response
    shown,           \* what the run has written to the page, in order
    events,          \* what the run has done, in order
    detected_cards,  \* Optional list returned by extract_card_names
    card_names,      \* batch given to search_multiple_cards
    idx,             \* loop position inside the batch (1-based)
    results,         \* dict built by search_multiple_cards
    lookups,         \* outcome of each search_card call made so far
    context_parts,   \* list built by get_relevant_cards_context
    returned         \* Optional value returned by the scryfall helper

vars == << pc, secrets_key, env_key, client, question, format_type,
           response_style, card_context, button, prompt, request, error_msg,
           response, shown, events, detected_cards, card_names, idx, results,
           lookups, context_parts, returned >>

mainVars == << secrets_key, env_key, client, button, shown >>
gptVars == << format_type, response_style, card_context, prompt, request,
              error_msg, response >>
enrichVars == << card_names, idx, results, lookups, context_parts, returned >>

(***************************************************************************)
(* Python values                                                           *)
(***************************************************************************)
NoneV == << >>
Some(v) == << v >>
Val(opt) == opt[1]
\* Python truthiness of an Optional str: None and "" are falsy
Truthy(opt) == opt # NoneV /\ Val(opt) # << >>

Min(a, b) == IF a < b THEN a ELSE b

UpperSeq == <<"A","B","C","D","E","F","G","H","I","J","K","L","M","N","O","P","Q","R","S","T","U","V","W","X","Y","Z">>
LowerSeq == <<"a","b","c","d","e","f","g","h","i","j","k","l","m","n","o","p","q","r","s","t","u","v","w","x","y","z">>
Upper == {UpperSeq[i] : i \in 1..26}
Lower == {LowerSeq[i] : i \in 1..26}
Digits == {"0","1","2","3","4","5","6","7","8","9"}
\* characters matched by \s and removed by str.strip()
Whitespace == {" ", "\t", "\n", "\r", "\f"}

\* str.lower() on one character
LowerChar(c) ==
    IF c \in Upper THEN LowerSeq[CHOOSE i \in 1..26 : UpperSeq[i] = c] ELSE c
\* str.lower()
StrLower(s) == [i \in 1..Len(s) |-> LowerChar(s[i])]

RECURSIVE LStrip(_)
LStrip(s) ==
    IF s # << >> /\ Head(s) \in Whitespace THEN LStrip(Tail(s)) ELSE s
RECURSIVE RStrip(_)
RStrip(s) ==
    IF s # << >> /\ s[Len(s)] \in Whitespace
    THEN RStrip(SubSeq(s, 1, Len(s) - 1)) ELSE s
\* str.strip()
Strip(s) == RStrip(LStrip(s))

\* str.startswith(prefix)
StartsWith(s, prefix) ==
    /\ Len(s) >= Len(prefix)
    /\ SubSeq(s, 1, Len(prefix)) = prefix

\* needle in hay (substring test)
Contains(hay, needle) ==
    \E i \in 1..(Len(hay) - Len(needle) + 1) :
        SubSeq(hay, i, i + Len(needle) - 1) = needle

\* s[:n]
Take(s, n) == SubSeq(s, 1, Min(n, Len(s)))

\* "".join(ss)
RECURSIVE Flatten(_)
Flatten(ss) == IF ss = << >> THEN << >> ELSE Head(ss) \o Flatten(Tail(ss))

\* sep.join(ss)
RECURSIVE Join(_, _)
Join(ss, sep) ==
    IF ss = << >> THEN << >>
    ELSE IF Len(ss) = 1 THEN Head(ss)
    ELSE Head(ss) \o sep \o Join(Tail(ss), sep)

(***************************************************************************)
(* extract_card_names: re.findall(r'\b[A-Z][a-zA-Z\s\-\']+\b', text)       *)
(***************************************************************************)
\* \w
IsWord(c) == c \in Upper \cup Lower \cup Digits \cup {"_"}
\* [a-zA-Z\s\-\']
InClass(c) == c \in Upper \cup Lower \cup Whitespace \cup {"-", "'"}

\* \b holds in front of text[i] (i = Len(text)+1 is the end of the text)
Boundary(text, i) ==
    LET before == i > 1 /\ IsWord(text[i - 1])
        after == i <= Len(text) /\ IsWord(text[i])
    IN before # after

\* index of the last character of the longest run of class characters
\* that starts at text[i]; i - 1 when text[i] is not a class character
RECURSIVE RunEnd(_, _)
RunEnd(text, i) ==
    IF i <= Len(text) /\ InClass(text[i]) THEN RunEnd(text, i + 1) ELSE i - 1

\* end of the match that starts at text[s], 0 when none: the greedy +
\* takes the whole run and gives characters back until \b holds
MatchEnd(text, s) ==
    IF ~(Boundary(text, s) /\ text[s] \in Upper) THEN 0
    ELSE LET ends == {e \in (s + 1)..RunEnd(text, s + 1) : Boundary(text, e + 1)}
         IN IF ends = {} THEN 0
            ELSE CHOOSE e \in ends : \A f \in ends : f <= e

\* re.findall from position s: leftmost matches, non-overlapping
RECURSIVE FindAll(_, _)
FindAll(text, s) ==
    IF s > Len(text) THEN << >>
    ELSE LET e == MatchEnd(text, s)
         IN IF e = 0 THEN FindAll(text, s + 1)
            ELSE << SubSeq(text, s, e) >> \o FindAll(text, e + 1)

common_words == {
    <<"t","h","e">>, <<"a","n","d">>, <<"o","r">>, <<"b","u","t">>,
    <<"f","o","r">>, <<"w","i","t","h">>, <<"f","r","o","m">>,
    <<"i","n","t","o">>, <<"d","u","r","i","n","g">>,
    <<"i","n","c","l","u","d","i","n","g">>, <<"u","n","t","i","l">>,
    <<"a","g","a","i","n","s","t">>, <<"a","m","o","n","g">>,
    <<"t","h","r","o","u","g","h","o","u","t">>,
    <<"d","e","s","p","i","t","e">>, <<"t","o","w","a","r","d","s">>,
    <<"u","p","o","n">> }

\* the list comprehension of app.py:224-225
RECURSIVE Filtered(_)
Filtered(words) ==
    IF words = << >> THEN << >>
    ELSE LET w == Strip(Head(words))
         IN IF Len(w) > 2 /\ StrLower(w) \notin common_words
            THEN << w >> \o Filtered(Tail(words))
            ELSE Filtered(Tail(words))

MaxCards == 5

\* variant: the [:5] slice of app.py:227 dropped
extract_card_names_unsliced(text) == Filtered(FindAll(text, 1))

extract_card_names(text) == Take(Filtered(FindAll(text, 1)), MaxCards)

(***************************************************************************)
(* get_gpt_response                                                        *)
(***************************************************************************)
\* options of the two selectboxes of main
Formats == {"Any Format", "Standard", "Modern", "Legacy", "Commander", "Limited"}
Styles == {"Extra-Concise", "Concise", "Detailed", "Judge-Level"}

format_context(fmt) ==
    IF fmt # "Any Format"
    THEN << "Focus on ", fmt, " format rules and interactions." >>
    ELSE << "Consider all formats when answering." >>

DefaultStyleInstruction == "Provide a detailed explanation."

style_instruction(style) ==
    CASE style = "Extra-Concise" ->
            "Be extremely concise. Unless absolutely necessary to answer the question accurately, answer in one or two sentences. Bullet points are helpful."
      [] style = "Concise" ->
            "Keep your answer brief and to the point. Don't include more detail than necessary. Bullet points are helpful."
      [] style = "Detailed" -> "Provide a thorough explanation with examples."
      [] style = "Judge-Level" ->
            "Give a comprehensive answer with rule citations and step-by-step breakdowns."
      [] OTHER -> DefaultStyleInstruction

system_prompt(fmt, style) ==
    << "You are an expert Magic: The Gathering judge assistant ...",
       "**Format Context:** " >> \o format_context(fmt) \o
    << "**Response Style:** ", style_instruction(style),
       "**Your expertise includes:** ... **When answering:** ... **Format your answers with:** ..." >>

mtg_context == "**Key MTG Concepts to Consider:** ..."

user_message(q, ctx) ==
    << mtg_context, "\n\n**Question:** " >> \o q \o
    (IF Truthy(ctx) THEN << "\n\n**Relevant card text:**\n" >> \o Val(ctx)
     ELSE << >>)

\* variant: the Concise branch carries the Detailed temperature
style_params_concise_warm(style) ==
    IF style = "Extra-Concise" THEN [max_tokens |-> 300, temperature |-> 1]
    ELSE IF style = "Concise" THEN [max_tokens |-> 600, temperature |-> 3]
    ELSE IF style = "Detailed" THEN [max_tokens |-> 1200, temperature |-> 3]
    ELSE [max_tokens |-> 2000, temperature |-> 2]

\* the if / elif / else of app.py:161-172
style_params(style) ==
    IF style = "Extra-Concise" THEN [max_tokens |-> 300, temperature |-> 1]
    ELSE IF style = "Concise" THEN [max_tokens |-> 600, temperature |-> 2]
    ELSE IF style = "Detailed" THEN [max_tokens |-> 1200, temperature |-> 3]
    ELSE [max_tokens |-> 2000, temperature |-> 2]

\* keyword arguments of client.chat.completions.create
create_request(p, style) ==
    [ model |-> "gpt-4o",
      messages |-> << [role |-> "system", content |-> p.system],
                      [role |-> "user", content |-> p.user] >>,
      max_tokens |-> style_params(style).max_tokens,
      temperature |-> style_params(style).temperature ]

\* the cross-mark character that opens the three messages
CrossMark == "[x]"

QuotaMessage == << CrossMark >> \o <<
    " ","*","*","A","P","I"," ","Q","u","o","t","a"," ","E","x","c","e","e",
    "d","e","d","*","*","\n","\n","Y","o","u","'","v","e"," ","r","e","a",
    "c","h","e","d"," ","y","o","u","r"," ","O","p","e","n","A","I"," ","A",
    "P","I"," ","u","s","a","g","e"," ","l","i","m","i","t","."," ","P","l",
    "e","a","s","e",":","\n","\n","1","."," ","*","*","C","h","e","c","k",
    " ","y","o","u","r"," ","b","i","l","l","i","n","g","*","*"," ","a","t",
    " ","h","t","t","p","s",":","/","/","p","l","a","t","f","o","r","m",".",
    "o","p","e","n","a","i",".","c","o","m","/","a","c","c","o","u","n","t",
    "/","b","i","l","l","i","n","g","\n","2","."," ","*","*","A","d","d",
    " ","c","r","e","d","i","t","s","*","*"," ","t","o"," ","y","o","u","r",
    " ","a","c","c","o","u","n","t","\n","3","."," ","*","*","T","r","y",
    " ","a","g","a","i","n"," ","l","a","t","e","r","*","*","\n","\n","T",
    "h","i","s"," ","i","s"," ","a"," ","b","i","l","l","i","n","g"," ","i",
    "s","s","u","e",","," ","n","o","t"," ","a"," ","p","r","o","b","l","e",
    "m"," ","w","i","t","h"," ","t","h","e"," ","a","p","p","." >>
InvalidKeyMessage == << CrossMark >> \o <<
    " ","*","*","I","n","v","a","l","i","d"," ","A","P","I"," ","K","e","y",
    "*","*","\n","\n","P","l","e","a","s","e"," ","c","h","e","c","k"," ",
    "y","o","u","r"," ","O","p","e","n","A","I"," ","A","P","I"," ","k","e",
    "y"," ","i","n"," ","t","h","e"," ",".","e","n","v"," ","f","i","l","e",
    "." >>
GenericPrefix == "[x] **Error getting response:** "

NeedleQuota == <<"i","n","s","u","f","f","i","c","i","e","n","t","_","q","u","o","t","a">>
Needle429 == <<"4","2","9">>
NeedleInvalidKey == <<"i","n","v","a","l","i","d","_","a","p","i","_","k","e","y">>

\* variant: the invalid_api_key test placed before the quota test
classify_error_key_first(msg) ==
    IF Contains(msg, NeedleInvalidKey) THEN InvalidKeyMessage
    ELSE IF Contains(msg, NeedleQuota) \/ Contains(msg, Needle429)
    THEN QuotaMessage
    ELSE << GenericPrefix >> \o msg

\* variant: the quota branch appends the text of the exception
classify_error_quota_echo(msg) ==
    IF Contains(msg, NeedleQuota) \/ Contains(msg, Needle429)
    THEN QuotaMessage \o msg
    ELSE IF Contains(msg, NeedleInvalidKey) THEN InvalidKeyMessage
    ELSE << GenericPrefix >> \o msg

\* the except branch of app.py:185-194
classify_error(msg) ==
    IF Contains(msg, NeedleQuota) \/ Contains(msg, Needle429)
    THEN QuotaMessage
    ELSE IF Contains(msg, NeedleInvalidKey) THEN InvalidKeyMessage
    ELSE << GenericPrefix >> \o msg

\* app.py:99-156: the two messages are built before the try block
GptCompose ==
    /\ pc = "gpt_entry"
    /\ prompt' = Some([system |-> system_prompt(format_type, response_style),
                       user |-> user_message(question, card_context)])
    /\ events' = Append(events, "compose")
    /\ pc' = "gpt_call"
    /\ UNCHANGED << question, format_type, response_style, card_context,
                    request, error_msg, response, detected_cards >>
    /\ UNCHANGED mainVars /\ UNCHANGED enrichVars

\* app.py:158-184: the call returns a completion with the given content
GptCallOk(content) ==
    /\ pc = "gpt_call"
    /\ request' = Some(create_request(Val(prompt), response_style))
    /\ events' = Append(events, "model_call")
    /\ response' = Some(content)
    /\ pc' = "gpt_return"
    /\ UNCHANGED << question, format_type, response_style, card_context,
                    prompt, error_msg, detected_cards >>
    /\ UNCHANGED mainVars /\ UNCHANGED enrichVars

\* variant: a failed call is repeated once before the error is reported
GptCallRaiseRetried(msg) ==
    /\ pc = "gpt_call"
    /\ request' = Some(create_request(Val(prompt), response_style))
    /\ events' = events \o << "model_call", "model_call" >>
    /\ error_msg' = Some(msg)
    /\ response' = Some(classify_error(msg))
    /\ pc' = "gpt_return"
    /\ UNCHANGED << question, format_type, response_style, card_context,
                    prompt, detected_cards >>
    /\ UNCHANGED mainVars /\ UNCHANGED enrichVars

\* app.py:158-194: the call (or the unpacking of its result) raises an
\* exception whose str() is msg
GptCallRaise(msg) ==
    /\ pc = "gpt_call"
    /\ request' = Some(create_request(Val(prompt), response_style))
    /\ events' = Append(events, "model_call")
    /\ error_msg' = Some(msg)
    /\ response' = Some(classify_error(msg))
    /\ pc' = "gpt_return"
    /\ UNCHANGED << question, format_type, response_style, card_context,
                    prompt, detected_cards >>
    /\ UNCHANGED mainVars /\ UNCHANGED enrichVars

(***************************************************************************)
(* init_openai_client and main                                             *)
(***************************************************************************)
PrefixSk == <<"s","k","-">>
PrefixSkSvcacct == <<"s","k","-","s","v","c","a","c","c","t","-">>

\* the key looked up at app.py:48-55
lookup_api_key(secrets, env) ==
    LET from_secrets == IF secrets.raises THEN NoneV ELSE secrets.value
    IN IF ~Truthy(from_secrets) THEN env ELSE from_secrets

\* variant: the prefix test of app.py:62 dropped
init_openai_client_any_key(secrets, env) ==
    LET api_key == lookup_api_key(secrets, env)
    IN IF ~Truthy(api_key)
       THEN [stopped |-> TRUE, client |-> NoneV,
             error |-> << "OPENAI_API_KEY not found. Please set it in your environment or Streamlit secrets." >>]
       ELSE [stopped |-> FALSE, client |-> Some([api_key |-> Val(api_key)]),
             error |-> << >>]

\* st.stop() ends the run; otherwise the client is returned
init_openai_client(secrets, env) ==
    LET api_key == lookup_api_key(secrets, env)
    IN IF ~Truthy(api_key)
       THEN [stopped |-> TRUE, client |-> NoneV,
             error |-> << "OPENAI_API_KEY not found. Please set it in your environment or Streamlit secrets." >>]
       ELSE IF \/ StartsWith(Val(api_key), PrefixSk)
               \/ StartsWith(Val(api_key), PrefixSkSvcacct)
       THEN [stopped |-> FALSE, client |-> Some([api_key |-> Val(api_key)]),
             error |-> << >>]
       ELSE [stopped |-> TRUE, client |-> NoneV,
             error |-> << "Invalid API key format. Got: " >>
                          \o Take(Val(api_key), 20) \o << "..." >>]

\* app.py:279
MainInitClient ==
    /\ pc = "main_start"
    /\ LET r == init_openai_client(secrets_key, env_key)
       IN IF r.stopped
          THEN /\ shown' = Append(shown, [kind |-> "error", text |-> r.error])
               /\ pc' = "stopped"
               /\ UNCHANGED << client, events >>
          ELSE /\ client' = r.client
               /\ events' = Append(events, "init_client")
               /\ pc' = "main_widgets"
               /\ UNCHANGED shown
    /\ UNCHANGED << secrets_key, env_key, button, question, detected_cards >>
    /\ UNCHANGED gptVars /\ UNCHANGED enrichVars

\* variant: the test of app.py:324 made on question instead of
\* question.strip()
MainSubmitUnstripped(fmt, style, q) ==
    /\ pc = "main_widgets"
    /\ format_type' = fmt
    /\ response_style' = style
    /\ question' = q
    /\ button' = TRUE
    /\ IF q # << >>
       THEN /\ pc' = "main_fresh_client"
            /\ UNCHANGED shown
       ELSE /\ shown' = Append(shown, [kind |-> "warning",
                                       text |-> << "Please enter a question." >>])
            /\ pc' = "main_done"
    /\ UNCHANGED << secrets_key, env_key, client, card_context, prompt,
                    request, error_msg, response, events, detected_cards >>
    /\ UNCHANGED enrichVars

\* app.py:292-324 and 344-345: the widgets hold fmt, style and q and the
\* "Get Answer" button was pressed
MainSubmit(fmt, style, q) ==
    /\ pc = "main_widgets"
    /\ format_type' = fmt
    /\ response_style' = style
    /\ question' = q
    /\ button' = TRUE
    /\ IF Strip(q) # << >>
       THEN /\ pc' = "main_fresh_client"
            /\ UNCHANGED shown
       ELSE /\ shown' = Append(shown, [kind |-> "warning",
                                       text |-> << "Please enter a question." >>])
            /\ pc' = "main_done"
    /\ UNCHANGED << secrets_key, env_key, client, card_context, prompt,
                    request, error_msg, response, events, detected_cards >>
    /\ UNCHANGED enrichVars

\* app.py:292-323: the run renders the widgets and the button is not pressed
MainNoSubmit(fmt, style, q) ==
    /\ pc = "main_widgets"
    /\ format_type' = fmt
    /\ response_style' = style
    /\ question' = q
    /\ pc' = "main_done"
    /\ UNCHANGED << secrets_key, env_key, client, button, shown, card_context,
                    prompt, request, error_msg, response, events,
                    detected_cards >>
    /\ UNCHANGED enrichVars

\* variant: the card names are detected before the answer is requested
MainFreshClientDetectFirst ==
    /\ pc = "main_fresh_client"
    /\ LET r == init_openai_client(secrets_key, env_key)
       IN IF r.stopped
          THEN /\ shown' = Append(shown, [kind |-> "error", text |-> r.error])
               /\ pc' = "stopped"
               /\ UNCHANGED << client, events, card_context, detected_cards >>
          ELSE /\ client' = r.client
               /\ detected_cards' = Some(extract_card_names(question))
               /\ events' = events \o << "init_client", "extract" >>
               /\ card_context' = NoneV
               /\ pc' = "gpt_entry"
               /\ UNCHANGED shown
    /\ UNCHANGED << secrets_key, env_key, button, question, format_type,
                    response_style, prompt, request, error_msg, response >>
    /\ UNCHANGED enrichVars

\* app.py:327-333: a fresh client, no card lookup, then get_gpt_response
MainFreshClient ==
    /\ pc = "main_fresh_client"
    /\ LET r == init_openai_client(secrets_key, env_key)
       IN IF r.stopped
          THEN /\ shown' = Append(shown, [kind |-> "error", text |-> r.error])
               /\ pc' = "stopped"
               /\ UNCHANGED << client, events, card_context >>
          ELSE /\ client' = r.client
               /\ events' = Append(events, "init_client")
               /\ card_context' = NoneV
               /\ pc' = "gpt_entry"
               /\ UNCHANGED shown
    /\ UNCHANGED << secrets_key, env_key, button, question, format_type,
                    response_style, prompt, request, error_msg, response,
                    detected_cards >>
    /\ UNCHANGED enrichVars

\* app.py:336-343: the answer is displayed, then the card names are detected
MainShowAnswer ==
    /\ pc = "gpt_return"
    /\ LET detected == extract_card_names(question)
           answer == [kind |-> "markdown", text |-> Val(response)]
       IN /\ detected_cards' = Some(detected)
          /\ shown' = IF detected # << >>
                      THEN shown \o << answer,
                               [kind |-> "info",
                                text |-> << "Detected potential card names: " >>
                                            \o Join(detected, << ",", " " >>)] >>
                      ELSE Append(shown, answer)
    /\ events' = events \o << "display", "extract" >>
    /\ pc' = "main_done"
    /\ UNCHANGED << secrets_key, env_key, client, button, question >>
    /\ UNCHANGED gptVars /\ UNCHANGED enrichVars

\* the page is run again from the top on the next interaction
MainRerun ==
    /\ pc \in {"main_done", "stopped"}
    /\ pc' = "main_start"
    /\ client' = NoneV
    /\ question' = << >>
    /\ format_type' = "Any Format"
    /\ response_style' = "Extra-Concise"
    /\ card_context' = NoneV
    /\ button' = FALSE
    /\ prompt' = NoneV /\ request' = NoneV /\ error_msg' = NoneV
    /\ response' = NoneV
    /\ shown' = << >> /\ events' = << >>
    /\ detected_cards' = NoneV
    /\ UNCHANGED << secrets_key, env_key >>
    /\ UNCHANGED enrichVars

(***************************************************************************)
(* scryfall_helper: search_card, get_card_rules_text, search_multiple_cards *)
(***************************************************************************)
\* records the card-data service can answer a fuzzy lookup with
Cards == {
    [name |-> << "Lightning Bolt" >>, mana_cost |-> Some(<< "{R}" >>),
     type_line |-> << "Instant" >>,
     oracle_text |-> Some(<< "Lightning Bolt deals 3 damage to any target." >>),
     power |-> NoneV, toughness |-> NoneV],
    [name |-> << "Grizzly Bears" >>, mana_cost |-> Some(<< "{1}{G}" >>),
     type_line |-> << "Creature - Bear" >>, oracle_text |-> Some(<< >>),
     power |-> Some(<< "2" >>), toughness |-> Some(<< "2" >>)],
    [name |-> << "Forest" >>, mana_cost |-> Some(<< >>),
     type_line |-> << "Basic Land - Forest" >>, oracle_text |-> NoneV,
     power |-> NoneV, toughness |-> NoneV] }

\* what one execution of the try block of search_card meets: an exception
\* (not found, network error, malformed record) or a complete record
LookupOutcomes ==
    [raised : {TRUE}, card : {NoneV}] \cup
    [raised : {FALSE}, card : {Some(c) : c \in Cards}]

\* scryfall_helper.py:20-41: the exception is caught and None returned
search_card(outcome) == IF outcome.raised THEN NoneV ELSE outcome.card

\* scryfall_helper.py:53-56
get_card_rules_text(outcome) ==
    LET card_info == search_card(outcome)
    IN IF card_info # NoneV /\ Truthy(Val(card_info).oracle_text)
       THEN Val(card_info).oracle_text
       ELSE NoneV

\* results[key] = value
Put(dict, key, value) ==
    [k \in (DOMAIN dict) \cup {key} |-> IF k = key THEN value ELSE dict[k]]

\* variant: the exception of a failed lookup leaves search_multiple_cards
SearchIterationPropagates(outcome) ==
    /\ pc = "search_loop"
    /\ idx <= Len(card_names)
    /\ lookups' = Append(lookups, [name |-> card_names[idx],
                                   outcome |-> outcome])
    /\ events' = Append(events, "card_lookup")
    /\ IF outcome.raised
       THEN /\ pc' = "search_done"
            /\ returned' = Some(results)
            /\ UNCHANGED << results, idx >>
       ELSE /\ results' = Put(results, card_names[idx],
                              get_card_rules_text(outcome))
            /\ idx' = idx + 1
            /\ UNCHANGED << pc, returned >>
    /\ UNCHANGED << card_names, context_parts, question, detected_cards >>
    /\ UNCHANGED mainVars /\ UNCHANGED gptVars

\* scryfall_helper.py:96-101: one iteration of the loop
SearchIteration(outcome) ==
    /\ pc = "search_loop"
    /\ idx <= Len(card_names)
    /\ lookups' = Append(lookups, [name |-> card_names[idx],
                                   outcome |-> outcome])
    /\ events' = Append(events, "card_lookup")
    /\ results' = Put(results, card_names[idx], get_card_rules_text(outcome))
    /\ idx' = idx + 1
    /\ UNCHANGED << pc, returned, card_names, context_parts, question,
                    detected_cards >>
    /\ UNCHANGED mainVars /\ UNCHANGED gptVars

\* scryfall_helper.py:103
SearchReturn ==
    /\ pc = "search_loop"
    /\ idx > Len(card_names)
    /\ returned' = Some(results)
    /\ pc' = "search_done"
    /\ UNCHANGED << card_names, idx, results, lookups, context_parts, events,
                    question, detected_cards >>
    /\ UNCHANGED mainVars /\ UNCHANGED gptVars

(***************************************************************************)
(* scryfall_helper: format_card_info_for_context,                          *)
(* get_relevant_cards_context                                              *)
(***************************************************************************)
\* scryfall_helper.py:68-82
format_card_info_for_context(outcome) ==
    LET card_info == search_card(outcome)
    IN IF card_info = NoneV THEN NoneV
       ELSE LET c == Val(card_info)
            IN Some(
                << "Card: " >> \o c.name \o << "\n" >> \o
                (IF Truthy(c.mana_cost)
                 THEN << "Mana Cost: " >> \o Val(c.mana_cost) \o << "\n" >>
                 ELSE << >>) \o
                << "Type: " >> \o c.type_line \o << "\n" >> \o
                (IF Truthy(c.oracle_text)
                 THEN << "Rules Text: " >> \o Val(c.oracle_text) \o << "\n" >>
                 ELSE << >>) \o
                (IF Truthy(c.power) /\ Truthy(c.toughness)
                 THEN << "Power/Toughness: " >> \o Val(c.power) \o << "/" >>
                      \o Val(c.toughness) \o << "\n" >>
                 ELSE << >>))

Separator == << "\n---\n" >>

\* scryfall_helper.py:115-118: an empty list returns "" at once
ContextEnter ==
    /\ pc = "context_entry"
    /\ IF card_names = << >>
       THEN /\ returned' = Some(<< >>)
            /\ pc' = "context_done"
            /\ UNCHANGED context_parts
       ELSE /\ context_parts' = << >>
            /\ pc' = "context_loop"
            /\ UNCHANGED returned
    /\ UNCHANGED << card_names, idx, results, lookups, events, question,
                    detected_cards >>
    /\ UNCHANGED mainVars /\ UNCHANGED gptVars

\* variant: the test of scryfall_helper.py:121 dropped, a failed lookup
\* contributes an empty part
ContextIterationKeepsEmpty(outcome) ==
    /\ pc = "context_loop"
    /\ idx <= Len(card_names)
    /\ lookups' = Append(lookups, [name |-> card_names[idx],
                                   outcome |-> outcome])
    /\ events' = Append(events, "card_lookup")
    /\ LET ctx == format_card_info_for_context(outcome)
       IN context_parts' =
            Append(context_parts, IF ctx = NoneV THEN << >> ELSE Val(ctx))
    /\ idx' = idx + 1
    /\ UNCHANGED << pc, returned, card_names, results, question,
                    detected_cards >>
    /\ UNCHANGED mainVars /\ UNCHANGED gptVars

\* scryfall_helper.py:119-122: one iteration of the loop
ContextIteration(outcome) ==
    /\ pc = "context_loop"
    /\ idx <= Len(card_names)
    /\ lookups' = Append(lookups, [name |-> card_names[idx],
                                   outcome |-> outcome])
    /\ events' = Append(events, "card_lookup")
    /\ LET ctx == format_card_info_for_context(outcome)
       IN context_parts' =
            IF Truthy(ctx) THEN Append(context_parts, Val(ctx))
            ELSE context_parts
    /\ idx' = idx + 1
    /\ UNCHANGED << pc, returned, card_names, results, question,
                    detected_cards >>
    /\ UNCHANGED mainVars /\ UNCHANGED gptVars

\* scryfall_helper.py:124-127
ContextReturn ==
    /\ pc = "context_loop"
    /\ idx > Len(card_names)
    /\ returned' = Some(IF context_parts # << >>
                        THEN Join(context_parts, Separator)
                        ELSE << >>)
    /\ pc' = "context_done"
    /\ UNCHANGED << card_names, idx, results, lookups, context_parts, events,
                    question, detected_cards >>
    /\ UNCHANGED mainVars /\ UNCHANGED gptVars

(***************************************************************************)
(* Inputs                                                                  *)
(***************************************************************************)
Sentence == <<"H","o","w"," ","d","o","e","s"," ","L","i","g","h","t","n","i","n","g"," ","B","o","l","t"," ","i","n","t","e","r","a","c","t"," ","w","i","t","h"," ","F","o","g","?">>
LightningBolt == <<"L","i","g","h","t","n","i","n","g"," ","B","o","l","t">>
Fog == <<"F","o","g">>

\* pieces the texts given to extract_card_names are assembled from
Segments == { <<"F","o","g","?">>, <<"T","h","e",",","I","t"," ","1">>,
              <<"B","o","l","t"," ","o","f"," ">>, <<"d","o","e","s"," ">> }
MaxSegs == 6
TextsUpTo(n) ==
    {Sentence} \cup
    UNION { {Flatten(f) : f \in [1..k -> Segments]} : k \in 0..n }

Questions == { << >>, <<" ","\t","\n">>, <<"C","a","n"," ","I","?">>, Sentence }
CardContexts == { NoneV, Some(<< >>), Some(<< "Card: Fog\n", "Type: Instant\n" >>) }
\* values get_gpt_response can be called with beyond the selectbox options
GptFormats == Formats \cup {"Pauper"}
GptStyles == Styles \cup {"Verbose", "detailed"}
Contents == { << "Answer from the model" >>, << >> }

\* pieces the text of a model-service exception is assembled from
ErrFragments == { Needle429, NeedleQuota, NeedleInvalidKey,
                  <<"t","i","m","e","o","u","t">>,
                  <<"b","i","l","l","i","n","g">> }
MaxErrParts == 2
ErrParts == UNION { [1..n -> ErrFragments] : n \in 0..MaxErrParts }
ErrorTexts == { Flatten(f) : f \in ErrParts }
\* exception texts met by the page: no marker or a single one
PageErrorTexts == { << >> } \cup ErrFragments

\* values of the configured credential
ApiKeys == { NoneV, Some(<< >>), Some(<<"s","k","-","a","b","c">>),
             Some(<<"s","k","-","s","v","c","a","c","c","t","-","x">>),
             Some(<<"p","k","-","a","b","c">>), Some(<<"s","k">>) }

NoSecrets == [raises |-> TRUE, value |-> NoneV]

IdleMain ==
    /\ secrets_key = NoSecrets /\ env_key = NoneV /\ client = NoneV
    /\ button = FALSE /\ shown = << >>
IdleGpt ==
    /\ format_type = "Any Format" /\ response_style = "Detailed"
    /\ card_context = NoneV /\ prompt = NoneV /\ request = NoneV
    /\ error_msg = NoneV /\ response = NoneV
IdleEnrich ==
    /\ card_names = << >> /\ idx = 1 /\ results = << >> /\ lookups = << >>
    /\ context_parts = << >> /\ returned = NoneV

(***************************************************************************)
(* extract_card_names applied to a text                                    *)
(***************************************************************************)
InitExtract ==
    /\ pc = "extract_entry"
    /\ question \in TextsUpTo(MaxSegs)
    /\ detected_cards = NoneV
    /\ events = << >>
    /\ IdleMain /\ IdleGpt /\ IdleEnrich

ExtractCall ==
    /\ pc = "extract_entry"
    /\ detected_cards' = Some(extract_card_names(question))
    /\ events' = Append(events, "extract")
    /\ pc' = "extract_done"
    /\ UNCHANGED << question >>
    /\ UNCHANGED mainVars /\ UNCHANGED gptVars /\ UNCHANGED enrichVars

NextExtract == ExtractCall

SpecExtract == InitExtract /\ [][NextExtract]_vars

\* candidates of the text that pass the filter, in order of appearance
Survives(w) == Len(Strip(w)) > 2 /\ StrLower(Strip(w)) \notin common_words
Survivors(text) ==
    LET kept == SelectSeq(FindAll(text, 1), Survives)
    IN [i \in 1..Len(kept) |-> Strip(kept[i])]

\* C3: extract_card_names("How does Lightning Bolt interact with Fog?")
\* returns exactly ["Lightning Bolt", "Fog"].
ExtractSentenceExample ==
    (pc = "extract_done" /\ question = Sentence)
        => Val(detected_cards) = << LightningBolt, Fog >>

\* C4: extract_card_names returns at most 5 entries, exactly the first (up
\* to) 5 surviving candidates in order of appearance; every entry has
\* trimmed length > 2 and a lowercase form outside the stop-word set; a text
\* without a capitalized run yields the empty list.
ExtractBounded ==
    pc = "extract_done" =>
        LET r == Val(detected_cards)
            sv == Survivors(question)
        IN /\ Len(r) <= 5
           /\ Len(r) = Min(5, Len(sv))
           /\ \A i \in 1..Len(r) : r[i] = sv[i]
           /\ \A i \in 1..Len(r) :
                /\ Len(Strip(r[i])) > 2
                /\ StrLower(r[i]) \notin common_words
                /\ Contains(question, r[i])
           /\ (\A i \in 1..Len(question) : question[i] \notin Upper)
                => r = << >>

\* a text with more than 5 surviving candidates has been processed
ExtractTruncates ==
    /\ pc = "extract_done"
    /\ Len(Survivors(question)) > 5
    /\ Len(Val(detected_cards)) = 5

(***************************************************************************)
(* get_gpt_response called on its own                                      *)
(***************************************************************************)
InitGpt ==
    /\ pc = "gpt_entry"
    /\ question \in Questions
    /\ card_context \in CardContexts
    /\ format_type \in GptFormats
    /\ response_style \in GptStyles
    /\ client = Some("client")
    /\ prompt = NoneV /\ request = NoneV /\ error_msg = NoneV
    /\ response = NoneV
    /\ secrets_key = NoSecrets /\ env_key = NoneV
    /\ button = FALSE /\ shown = << >>
    /\ events = << >> /\ detected_cards = NoneV
    /\ IdleEnrich

NextGpt ==
    \/ GptCompose
    \/ \E content \in Contents : GptCallOk(content)
    \/ \E msg \in ErrorTexts : GptCallRaise(msg)

SpecGpt == InitGpt /\ [][NextGpt]_vars

\* C1: for a response style outside the four known ones the model is
\* invoked with max tokens 1200 and temperature 0.3 and the default style
\* instruction.
UnknownStyleIsDetailed ==
    (request # NoneV /\ response_style \notin Styles) =>
        /\ Val(request).max_tokens = 1200
        /\ Val(request).temperature = 3
        /\ \E i \in 1..Len(Val(request).messages[1].content) :
              Val(request).messages[1].content[i] = DefaultStyleInstruction

StyleTable ==
    [s \in Styles |->
        CASE s = "Extra-Concise" -> << 300, 1 >>
          [] s = "Concise" -> << 600, 2 >>
          [] s = "Detailed" -> << 1200, 3 >>
          [] s = "Judge-Level" -> << 2000, 2 >>]

\* C2: for each of the four response styles the model is invoked with the
\* (max tokens, temperature) pair of the fixed table, whatever the
\* question, the format and the card context.
KnownStyleParams ==
    (request # NoneV /\ response_style \in Styles) =>
        << Val(request).max_tokens, Val(request).temperature >>
            = StyleTable[response_style]

\* every style has been sent with a non-default question, format and context
KnownStyleSent ==
    /\ request # NoneV
    /\ response_style = "Concise"
    /\ format_type = "Commander"
    /\ Truthy(card_context)
    /\ question = Sentence

\* error texts in which the service reports quota or rate exhaustion
QuotaErrorTexts ==
    { Flatten(f) : f \in { g \in ErrParts :
        \E i \in DOMAIN g : g[i] \in {Needle429, NeedleQuota} } }

\* C7: a model call failing with a quota / rate / billing error returns the
\* fixed quota message, not the generic "Error getting response" text.
QuotaErrorMessage ==
    (pc = "gpt_return" /\ error_msg # NoneV
        /\ Val(error_msg) \in QuotaErrorTexts) =>
            /\ response = Some(QuotaMessage)
            /\ Head(Val(response)) # GenericPrefix

\* a quota error whose text also carries another marker has been classified
QuotaErrorSeen ==
    /\ pc = "gpt_return"
    /\ error_msg = Some(NeedleInvalidKey \o NeedleQuota)
    /\ response = Some(QuotaMessage)

\* the three kinds of text get_gpt_response answers a failed call with
IsQuotaAnswer(r) == r = QuotaMessage
IsInvalidKeyAnswer(r) == r = InvalidKeyMessage
IsGenericAnswer(r, msg) == r = << GenericPrefix >> \o msg
BoolCount(b) == IF b THEN 1 ELSE 0

\* C11: every failure of the model call is absorbed by get_gpt_response:
\* it returns a string of exactly one of three kinds (fixed quota message,
\* fixed invalid-key message, generic failure notice), and the text of the
\* exception appears in the returned string only in the generic kind.
FailureAbsorbed ==
    /\ pc \in {"gpt_entry", "gpt_call", "gpt_return"}
    /\ error_msg # NoneV =>
          /\ pc = "gpt_return"
          /\ response # NoneV
          /\ LET r == Val(response)
                 msg == Val(error_msg)
             IN /\ BoolCount(IsQuotaAnswer(r)) + BoolCount(IsInvalidKeyAnswer(r))
                      + BoolCount(IsGenericAnswer(r, msg)) = 1
                /\ ~IsGenericAnswer(r, msg) => ~Contains(r, msg)
                /\ IsGenericAnswer(r, msg) =>
                      SubSeq(r, 2, Len(r)) = msg

\* each of the three kinds has been returned for a failed call; this one
\* is a quota answer to an exception whose text is a word of that answer
\* followed by a marker
FailureKindsSeen ==
    /\ pc = "gpt_return"
    /\ error_msg = Some(<<"b","i","l","l","i","n","g">> \o Needle429)
    /\ response = Some(QuotaMessage)

\* C12: an exception whose text carries the invalid_api_key marker is
\* answered with the Invalid-API-Key message, not the quota message,
\* whatever else the text contains.
InvalidKeyAlwaysReported ==
    (pc = "gpt_return" /\ error_msg # NoneV
        /\ Contains(Val(error_msg), NeedleInvalidKey)) =>
            /\ response = Some(InvalidKeyMessage)
            /\ response # Some(QuotaMessage)

(***************************************************************************)
(* The page: main run again and again under one configuration              *)
(***************************************************************************)
Init ==
    /\ pc = "main_start"
    /\ secrets_key \in {NoSecrets} \cup [raises : {FALSE}, value : ApiKeys]
    /\ env_key \in ApiKeys
    /\ client = NoneV
    /\ question = << >>
    /\ format_type = "Any Format"
    /\ response_style = "Extra-Concise"
    /\ card_context = NoneV
    /\ button = FALSE
    /\ prompt = NoneV /\ request = NoneV /\ error_msg = NoneV
    /\ response = NoneV
    /\ shown = << >> /\ events = << >>
    /\ detected_cards = NoneV
    /\ IdleEnrich

Next ==
    \/ MainInitClient
    \/ \E fmt \in Formats, style \in Styles, q \in Questions :
          MainSubmit(fmt, style, q)
    \/ \E fmt \in Formats, style \in Styles, q \in Questions :
          MainNoSubmit(fmt, style, q)
    \/ MainFreshClient
    \/ GptCompose
    \/ \E content \in Contents : GptCallOk(content)
    \/ \E msg \in PageErrorTexts : GptCallRaise(msg)
    \/ MainShowAnswer
    \/ MainRerun

Spec == Init /\ [][Next]_vars

Count(seq, x) == Cardinality({i \in DOMAIN seq : seq[i] = x})
Occurs(seq, x) == \E i \in DOMAIN seq : seq[i] = x
IsPrefix(a, b) == Len(a) <= Len(b) /\ a = SubSeq(b, 1, Len(a))
Blank(q) == \A i \in DOMAIN q : q[i] \in Whitespace

\* C5: an empty or whitespace-only question is rejected with a warning and
\* no model call, no card lookup and no candidate extraction happens.
EmptyQuestionRejected ==
    (button /\ Blank(question)) =>
        /\ pc = "main_done"
        /\ shown = << [kind |-> "warning",
                       text |-> << "Please enter a question." >>] >>
        /\ ~Occurs(events, "compose")
        /\ ~Occurs(events, "model_call")
        /\ ~Occurs(events, "extract")
        /\ ~Occurs(events, "card_lookup")
        /\ request = NoneV /\ response = NoneV
        /\ detected_cards = NoneV /\ lookups = << >>

\* a whitespace-only question has been submitted
WhitespaceQuestionSubmitted ==
    /\ button
    /\ question = <<" ", "\t", "\n">>
    /\ pc = "main_done"

\* the steps of one accepted question, in the order main performs them
StepOrder ==
    << "init_client", "init_client", "compose", "model_call", "display",
       "extract" >>

\* C8 as stated: candidate extraction is complete before prompt
\* composition and model invocation begin.
ExtractBeforeCompose ==
    (Occurs(events, "compose") \/ Occurs(events, "model_call"))
        => (detected_cards # NoneV /\ Occurs(events, "extract"))

\* C8 amended: for an accepted question main composes the prompt without
\* card context, invokes the model, displays the answer and only then
\* extracts the candidates; no enrichment takes place.
OrchestratorOrder ==
    /\ IsPrefix(events, StepOrder)
    /\ lookups = << >> /\ card_context = NoneV
    /\ (button /\ ~Blank(question) /\ pc = "main_done") => events = StepOrder
    /\ detected_cards # NoneV => Occurs(events, "model_call")

\* an accepted question has been answered and its candidates extracted
AcceptedQuestionDone ==
    /\ pc = "main_done" /\ button /\ question = Sentence
    /\ events = StepOrder
    /\ detected_cards # NoneV

EffectiveKey ==
    IF ~secrets_key.raises /\ secrets_key.value \notin {NoneV, Some(<< >>)}
    THEN secrets_key.value ELSE env_key
KeyAccepted ==
    /\ EffectiveKey \notin {NoneV, Some(<< >>)}
    /\ Len(Val(EffectiveKey)) >= 3
    /\ Val(EffectiveKey)[1] = "s" /\ Val(EffectiveKey)[2] = "k"
    /\ Val(EffectiveKey)[3] = "-"

\* C9: with the credential absent or not starting with "sk-",
\* init_openai_client shows an error and stops the run: no client is built
\* and no model call is made; a model call happens only after the
\* credential check has passed.
CredentialFailFast ==
    /\ ~KeyAccepted =>
          /\ client = NoneV /\ request = NoneV
          /\ events = << >>
          /\ pc \in {"main_start", "stopped"}
          /\ pc = "stopped" =>
                (Len(shown) = 1 /\ shown[1].kind = "error")
    /\ Occurs(events, "model_call") =>
          /\ KeyAccepted /\ client # NoneV
          /\ events[1] = "init_client" /\ events[2] = "init_client"

\* a run has been stopped on a credential that is present but malformed
MalformedKeyStopped ==
    /\ pc = "stopped"
    /\ EffectiveKey = Some(<<"p","k","-","a","b","c">>)
    /\ client = NoneV

\* C10: every accepted question causes exactly one call of the model
\* endpoint, with model "gpt-4o" and one system message followed by one
\* user message; a failed call is not repeated.
SingleModelCall ==
    /\ Count(events, "model_call") <= 1
    /\ Count(events, "model_call") = 1 <=> request # NoneV
    /\ (button /\ ~Blank(question) /\ pc \in {"gpt_return", "main_done"}) =>
          /\ Count(events, "model_call") = 1
          /\ Val(request).model = "gpt-4o"
          /\ Len(Val(request).messages) = 2
          /\ Val(request).messages[1].role = "system"
          /\ Val(request).messages[2].role = "user"

\* a failed model call has been reported and the run has ended
FailedCallNotRetried ==
    /\ pc = "main_done"
    /\ error_msg # NoneV
    /\ Count(events, "model_call") = 1

(***************************************************************************)
(* search_multiple_cards applied to a batch of names                       *)
(***************************************************************************)
CardNames == { LightningBolt, Fog, <<"B","e","a","r","s">> }
MaxNames == 3
Batches == UNION { [1..n -> CardNames] : n \in 0..MaxNames }

InitEnrich ==
    /\ pc = "search_loop"
    /\ card_names \in Batches
    /\ idx = 1 /\ results = << >> /\ lookups = << >> /\ returned = NoneV
    /\ context_parts = << >>
    /\ question = << >> /\ detected_cards = NoneV /\ events = << >>
    /\ IdleMain /\ IdleGpt

NextEnrich ==
    \/ \E outcome \in LookupOutcomes : SearchIteration(outcome)
    \/ SearchReturn

SpecEnrich == InitEnrich /\ [][NextEnrich]_vars

NamesOf(batch) == {batch[i] : i \in DOMAIN batch}
LastIndex(batch, n) ==
    CHOOSE i \in DOMAIN batch :
        batch[i] = n /\ \A j \in DOMAIN batch : batch[j] = n => j <= i

\* C6: search_multiple_cards completes for every batch and every pattern
\* of failing lookups; every name of the batch has an entry, a name whose
\* lookup fails maps to None and a name whose lookup succeeds gets its
\* rules text wherever the failures occur.
PartialFailureIsolation ==
    /\ pc \in {"search_loop", "search_done"}
    /\ DOMAIN results = NamesOf(SubSeq(card_names, 1, idx - 1))
    /\ pc = "search_done" =>
          /\ returned = Some(results)
          /\ Len(lookups) = Len(card_names)
          /\ DOMAIN Val(returned) = NamesOf(card_names)
          /\ \A n \in NamesOf(card_names) :
                LET last == lookups[LastIndex(card_names, n)].outcome
                IN /\ last.raised => Val(returned)[n] = NoneV
                   /\ ~last.raised =>
                        Val(returned)[n] =
                            IF Val(last.card).oracle_text \in {NoneV, Some(<< >>)}
                            THEN NoneV ELSE Val(last.card).oracle_text

\* a batch whose first lookup failed and whose last lookup succeeded
FailureThenSuccess ==
    /\ pc = "search_done"
    /\ Len(card_names) = 3
    /\ card_names[1] # card_names[3]
    /\ lookups[1].outcome.raised
    /\ ~lookups[3].outcome.raised
    /\ Val(returned)[card_names[1]] = NoneV
    /\ Val(returned)[card_names[3]] # NoneV

(***************************************************************************)
(* get_relevant_cards_context applied to a list of names                   *)
(***************************************************************************)
InitContext ==
    /\ pc = "context_entry"
    /\ card_names \in Batches
    /\ idx = 1 /\ results = << >> /\ lookups = << >> /\ returned = NoneV
    /\ context_parts = << >>
    /\ question = << >> /\ detected_cards = NoneV /\ events = << >>
    /\ IdleMain /\ IdleGpt

NextContext ==
    \/ ContextEnter
    \/ \E outcome \in LookupOutcomes : ContextIteration(outcome)
    \/ ContextReturn

SpecContext == InitContext /\ [][NextContext]_vars

\* the lookups that produced a record, in the order they were made
Found == SelectSeq(lookups, LAMBDA l : ~l.outcome.raised)
\* positions of a chunk in a str
Positions(str, chunk) == {i \in DOMAIN str : str[i] = chunk}
\* the k-th smallest element of a set of positions
RECURSIVE Sorted(_)
Sorted(S) ==
    IF S = {} THEN << >>
    ELSE LET m == CHOOSE x \in S : \A y \in S : x <= y
         IN << m >> \o Sorted(S \ {m})

\* C13: get_relevant_cards_context returns one block holding one labeled
\* summary per name whose lookup yields a summary, in the order of the
\* names, joined pairwise by the separator line "---"; names without a
\* summary add nothing (no empty section, no extra separator) and the
\* block is "" for an empty list or when no name has a summary.
ContextBlock ==
    pc = "context_done" =>
        LET block == Val(returned)
            heads == Sorted(Positions(block, "Card: "))
            seps == Sorted(Positions(block, Separator[1]))
        IN /\ returned # NoneV
           /\ Len(lookups) = Len(card_names)
           /\ \A i \in DOMAIN lookups : lookups[i].name = card_names[i]
           /\ Len(heads) = Len(Found)
           /\ \A k \in DOMAIN heads :
                /\ block[heads[k] + 1] = Val(Found[k].outcome.card).name[1]
                /\ Occurs(block, "Type: ")
           /\ Len(seps) = (IF Len(Found) = 0 THEN 0 ELSE Len(Found) - 1)
           /\ \A k \in DOMAIN seps :
                heads[k] < seps[k] /\ seps[k] + 1 = heads[k + 1]
           /\ (card_names = << >> \/ Len(Found) = 0) <=> block = << >>
           /\ block # << >> => heads[1] = 1

\* three names were given, the middle lookup failed and the two summaries
\* are joined by one separator
ContextSkipsFailure ==
    /\ pc = "context_done"
    /\ Len(card_names) = 3
    /\ ~lookups[1].outcome.raised
    /\ lookups[2].outcome.raised
    /\ ~lookups[3].outcome.raised
    /\ Cardinality(Positions(Val(returned), Separator[1])) = 1

====
